---- MODULE Spec2Model ----
(***************************************************************************)
(* BPM estimation and motion-artifact rejection core of filtro_ppg.       *)
(*                                                                         *)
(* The five estimation scripts (calculate_bpm_vfinal, ..._fft_imu_1,      *)
(* ..._fft_imu_2, ..._from_peaks, ..._with_nlms) share one batch loop     *)
(* over the recordings and one sliding-window loop per recording; they    *)
(* differ in the candidate generator, the classifier and the constants.   *)
(*                                                                         *)
(* Units.  Every frequency is an integer number of 1/10240 Hz, every BPM  *)
(* an integer number of 1/10240 BPM, every timestamp an integer number of *)
(* milliseconds.  In these units the FFT bin frequencies k*FS/FFT_LENGTH  *)
(* (= k*1250), the band limits and both collision thresholds are exact.   *)
(* Spectral magnitudes ("power") are natural numbers.  The value None of  *)
(* the scripts is the integer -1, which no frequency or magnitude takes.  *)
(***************************************************************************)
EXTENDS Integers, Naturals, Sequences, FiniteSets, TLC

----------------------------------------------------------------------------
(* Bounds of the model *)

MaxFiles == 2
MaxExtraSteps == 1
MaxPeakGaps == 2
MaxImuSamples == 2

----------------------------------------------------------------------------
(* Program constants *)

FS == 500
WINDOW_SECONDS == 8
STEP_SECONDS == 1
FFT_LENGTH == 4096
MOTION_HZ_MIN == 10240
NLMS_FILTER_ORDER == 15

None == 0 - 1
HzScale == 5 * 2048
MsPerSecond == 10 * 100

Scripts == {"vfinal", "fft1", "fft2", "peaks", "nlms"}
SpectralScripts == {"vfinal", "fft1", "fft2"}

BPM_HZ_MIN(s) == 8192
BPM_HZ_MAX(s) == IF s \in {"vfinal", "nlms"} THEN 40960 ELSE 30720
MOTION_HZ_MAX(s) == IF s = "peaks" THEN 40960 ELSE 35840
COLLISION_THRESHOLD_HZ(s) == IF s = "vfinal" THEN 2560 ELSE 2048
POWER_RATIO_THRESHOLD(s) == 2
MinWindowLen(s) == IF s = "vfinal" THEN 10 ELSE IF s \in {"fft2", "nlms"} THEN 1 ELSE 0
BPM_MIN == 50 * HzScale
BPM_MAX == 240 * HzScale
EXCLUSION_THRESHOLD_BPM == 15 * HzScale
\* variant: int(60.0 / BPM_MAX) * FS
MIN_DISTANCE_SAMPLESIntFirst == ((60 * HzScale) \div BPM_MAX) * FS

\* int((60.0 / BPM_MAX) * FS)
MIN_DISTANCE_SAMPLES == (60 * HzScale * FS) \div BPM_MAX

window_samples == WINDOW_SECONDS * FS
step_samples == STEP_SECONDS * FS

----------------------------------------------------------------------------
(* Arithmetic helpers *)

Abs(x) == IF x < 0 THEN 0 - x ELSE x

SetMax(S) == CHOOSE x \in S : \A y \in S : y <= x
SetMin(S) == CHOOSE x \in S : \A y \in S : x <= y

\* Python truthiness of a value that is None or a number
Truthy(x) == x # None /\ x # 0

Min(a, b) == IF a < b THEN a ELSE b

----------------------------------------------------------------------------
(* Spectral peak extractor.  A magnitude spectrum yf (the outcome of      *)
(* detrend, Hann taper and zero-padded rfft) is given by its nonzero      *)
(* part: a function from some bins to magnitudes; every other bin of the  *)
(* transform has magnitude 0.                                              *)

Bins == 0 .. (FFT_LENGTH \div 2)

\* np.fft.rfftfreq(FFT_LENGTH, 1 / fs): k * (1 / (FFT_LENGTH * (1 / fs)))
Xf(k) == k * ((FS * HzScale) \div FFT_LENGTH)

Yf(sp, k) == IF k \in DOMAIN sp THEN sp[k] ELSE 0

\* variant: the ends of the band are left out
FreqMaskExclusive(k, min_hz, max_hz) == Xf(k) > min_hz /\ Xf(k) < max_hz

\* freq_mask = (xf >= min_hz) & (xf <= max_hz), at bin k
FreqMask(k, min_hz, max_hz) == Xf(k) >= min_hz /\ Xf(k) <= max_hz

\* the masked bins that can hold a nonzero magnitude
MaskedBins(sp, min_hz, max_hz) == {k \in DOMAIN sp \cap Bins : FreqMask(k, min_hz, max_hz)}

\* np.max(yf[freq_mask]) of a non-empty mask
MaxMasked(sp, min_hz, max_hz) ==
    SetMax({0} \cup {sp[k] : k \in MaskedBins(sp, min_hz, max_hz)})

\* np.argmax(yf[freq_mask]) of a mask whose maximum is not 0: the first
\* (lowest) bin that holds the maximum
ArgMax(sp, min_hz, max_hz) ==
    SetMin({k \in MaskedBins(sp, min_hz, max_hz) : sp[k] = MaxMasked(sp, min_hz, max_hz)})

\* variant: the test 'np.max(yf[freq_mask]) > 0' is left out
get_dominant_freq_and_powerNoFloor(n, sp, min_hz, max_hz, min_len) ==
    IF n < min_len THEN <<None, None>>
    ELSE IF \E k \in Bins : FreqMask(k, min_hz, max_hz)
         THEN IF MaxMasked(sp, min_hz, max_hz) > 0
              THEN <<Xf(ArgMax(sp, min_hz, max_hz)), Yf(sp, ArgMax(sp, min_hz, max_hz))>>
              ELSE <<Xf(SetMin({k \in Bins : FreqMask(k, min_hz, max_hz)})), 0>>
         ELSE <<None, None>>

get_dominant_freq_and_power(n, sp, min_hz, max_hz, min_len) ==
    IF n < min_len THEN <<None, None>>
    ELSE IF /\ \E k \in Bins : FreqMask(k, min_hz, max_hz)
            /\ MaxMasked(sp, min_hz, max_hz) > 0
         THEN LET peak == ArgMax(sp, min_hz, max_hz)
              IN  <<Xf(peak), Yf(sp, peak)>>
         ELSE <<None, None>>

----------------------------------------------------------------------------
(* Input spectra.  For each window the magnitude spectrum of the PPG      *)
(* window and of the IMU magnitude window is drawn from these sets.       *)

\* bins 6 and 8 lie below the cardiac and the motion band
PpgProbeBins == {16, 20}
ImuProbeBins == {9, 10, 16}
Magnitudes == {1, 2, 3}

Silent == [b \in {} |-> 0]
PpgSpectra ==
    {Silent} \cup {(b :> m) : b \in PpgProbeBins, m \in Magnitudes}
        \cup {(6 :> 3), (6 :> 3) @@ (16 :> 1), (16 :> 2) @@ (20 :> 2), (16 :> 1) @@ (20 :> 3)}
ImuSpectra == {Silent, (8 :> 1)} \cup {(b :> m) : b \in ImuProbeBins, m \in Magnitudes}
\* from_peaks reads no power off the motion spectrum
ImuSpectraPeaks == {Silent, (8 :> 1)} \cup {(b :> 1) : b \in ImuProbeBins}

----------------------------------------------------------------------------
(* Motion-artifact classifier ("detector de mentiras") *)

\* variant: only the motion fundamental is compared
IsArtifactNaiveFundamentalOnly(ppg_freq, motion_freq, threshold_hz) ==
    /\ Truthy(motion_freq)
    /\ Abs(ppg_freq - motion_freq) < threshold_hz

\* variant: the second harmonic of the PPG is compared with the motion fundamental too
IsArtifactNaiveBothHarmonics(ppg_freq, motion_freq, threshold_hz) ==
    /\ Truthy(motion_freq)
    /\ \/ Abs(ppg_freq - motion_freq) < threshold_hz
       \/ Abs(ppg_freq - 2 * motion_freq) < threshold_hz
       \/ Abs(2 * ppg_freq - motion_freq) < threshold_hz

\* fft_imu_1: any collision with the motion fundamental or its first harmonic
IsArtifactNaive(ppg_freq, motion_freq, threshold_hz) ==
    /\ Truthy(motion_freq)
    /\ \/ Abs(ppg_freq - motion_freq) < threshold_hz
       \/ Abs(ppg_freq - 2 * motion_freq) < threshold_hz

\* variant: the motion peak must be ratio times stronger than the PPG peak
IsArtifactPowerMotionDominant(ppg_freq, ppg_power, motion_freq, motion_power, threshold_hz, ratio) ==
    /\ Truthy(motion_freq) /\ Truthy(motion_power)
    /\ \/ Abs(ppg_freq - motion_freq) < threshold_hz
       \/ Abs(ppg_freq - 2 * motion_freq) < threshold_hz
    /\ motion_power > ppg_power * ratio

\* variant: the power test alone decides, collision or not
IsArtifactPowerNoCollision(ppg_freq, ppg_power, motion_freq, motion_power, threshold_hz, ratio) ==
    /\ Truthy(motion_freq) /\ Truthy(motion_power)
    /\ motion_power * ratio > ppg_power

\* vfinal, fft_imu_2: a collision counts only if the motion peak wins the power test
IsArtifactPower(ppg_freq, ppg_power, motion_freq, motion_power, threshold_hz, ratio) ==
    /\ Truthy(motion_freq) /\ Truthy(motion_power)
    /\ \/ /\ Abs(ppg_freq - motion_freq) < threshold_hz
          /\ motion_power * ratio > ppg_power
       \/ /\ Abs(ppg_freq - 2 * motion_freq) < threshold_hz
          /\ motion_power * ratio > ppg_power

IsArtifact(s, ppg_freq, ppg_power, motion_freq, motion_power) ==
    IF s = "fft1"
    THEN IsArtifactNaive(ppg_freq, motion_freq, COLLISION_THRESHOLD_HZ(s))
    ELSE IsArtifactPower(ppg_freq, ppg_power, motion_freq, motion_power,
                         COLLISION_THRESHOLD_HZ(s), POWER_RATIO_THRESHOLD(s))

----------------------------------------------------------------------------
(* Sliding window *)

\* variant: the stop of the range is one past the last full window
InRangeInclusive(pos, len) == pos <= len - window_samples

\* range(0, len(ppg_filtered) - window_samples, step_samples) still yields i
InRange(pos, len) == pos < len - window_samples

\* i / FS, in milliseconds
WindowStartS(pos) == (pos * MsPerSecond) \div FS

\* variant: the frequency is handed on as it is
BpmCandidatePerSecond(ppg_freq) == ppg_freq

\* ppg_freq * 60
BpmCandidate(ppg_freq) == ppg_freq * 60

\* number of samples of signal[i : i + window_samples]
SliceLen(pos, len) == IF pos >= len THEN 0 ELSE Min(window_samples, len - pos)

\* variant: the verdict of the classifier is ignored
AcceptsAnyCandidate(ppg_freq, is_artifact) == ppg_freq # None

\* 'if not is_artifact: final_results.append(...)'
Accepts(ppg_freq, is_artifact) == ppg_freq # None /\ ~is_artifact

\* variant: a candidate counts as artifact until a motion estimate clears it
ValidateFailClosed(s, has, ppg_freq, ppg_power, motion) ==
    IF has /\ Truthy(motion[1])
    THEN IsArtifact(s, ppg_freq, ppg_power, motion[1], motion[2])
    ELSE TRUE

\* Stage 2 of the loop body: is_artifact stays False unless the recording has an
\* IMU signal and the classifier flags the candidate
Validate(s, has, ppg_freq, ppg_power, motion) ==
    has /\ IsArtifact(s, ppg_freq, ppg_power, motion[1], motion[2])

----------------------------------------------------------------------------
(* Peak-counting strategy (calculate_bpm_from_peaks) *)

\* 60.0 / (np.diff(peaks) / FS)
InstantBpms(peaks) ==
    [j \in 1 .. (Len(peaks) - 1) |-> (60 * FS * HzScale) \div (peaks[j + 1] - peaks[j])]

InBpmRange(bpm) == BPM_MIN <= bpm /\ bpm <= BPM_MAX

CandidateBpms(instant_bpms) == SelectSeq(instant_bpms, InBpmRange)

\* get_motion_freq: mean-detrended, band 1.0 .. 4.0 Hz, frequency only
get_motion_freq(sp) == get_dominant_freq_and_power(window_samples, sp, MOTION_HZ_MIN, MOTION_HZ_MAX("peaks"), 0)[1]

MotionBpm(has, motion_freq) == IF has /\ Truthy(motion_freq) THEN motion_freq * 60 ELSE None

\* variant: a value at distance exactly 15 BPM is kept
ValidatedBpmsKeepsBoundary(candidate_bpms, motion_bpm) ==
    IF Truthy(motion_bpm)
    THEN SelectSeq(candidate_bpms, LAMBDA bpm : Abs(bpm - motion_bpm) >= EXCLUSION_THRESHOLD_BPM)
    ELSE candidate_bpms

\* 'if abs(bpm - motion_bpm) > exclusion_threshold: validated_bpms.append(bpm)'
ValidatedBpms(candidate_bpms, motion_bpm) ==
    IF Truthy(motion_bpm)
    THEN SelectSeq(candidate_bpms, LAMBDA bpm : Abs(bpm - motion_bpm) > EXCLUSION_THRESHOLD_BPM)
    ELSE candidate_bpms

RECURSIVE Insert(_, _)
Insert(sorted, x) ==
    IF sorted = <<>> THEN <<x>>
    ELSE IF x <= Head(sorted) THEN <<x>> \o sorted
    ELSE <<Head(sorted)>> \o Insert(Tail(sorted), x)

RECURSIVE Sort(_)
Sort(seq) == IF seq = <<>> THEN <<>> ELSE Insert(Sort(Tail(seq)), Head(seq))

\* np.median of a non-empty list
Median(seq) ==
    LET sorted == Sort(seq)
        n == Len(seq)
    IN  IF n % 2 = 1 THEN sorted[(n + 1) \div 2]
        ELSE (sorted[n \div 2] + sorted[(n \div 2) + 1]) \div 2

----------------------------------------------------------------------------
(* Inputs.  A recording is read from disk when its turn comes; what the   *)
(* files hold is drawn then.  For each window the magnitude spectrum of   *)
(* the conditioned PPG window and of the IMU magnitude window is drawn    *)
(* when the window is extracted.                                           *)

Lengths ==
    {0, window_samples - 1}
        \cup {window_samples + e * step_samples + d : e \in 0 .. MaxExtraSteps, d \in 0 .. 1}

\* find_peaks output: sample indices at least MIN_DISTANCE_SAMPLES apart
PeakGapChoices == {250, 600, 750}

RECURSIVE PeaksFrom(_, _)
PeaksFrom(first, gaps) ==
    IF gaps = <<>> THEN <<first>>
    ELSE <<first>> \o PeaksFrom(first + Head(gaps), Tail(gaps))

PeakInputs ==
    {<<>>} \cup {PeaksFrom(1, gaps) :
                   gaps \in UNION {[1 .. n -> {g \in PeakGapChoices : g >= MIN_DISTANCE_SAMPLES}] :
                                     n \in 0 .. MaxPeakGaps}}

----------------------------------------------------------------------------
(* State *)

VARIABLES
    script,         \* which of the five scripts runs
    nfiles,         \* len(ppg_files)
    pc,             \* "next_file", "nlms", "windows", "done", "crashed"; "call", "filter", "returned"
    r,              \* how many entries of ppg_files the batch loop has taken
    imu_file,       \* os.path.exists(imu_path) for recording r
    has_imu,        \* the scripts' has_imu
    imu_owner,      \* the recording whose array imu_filtered holds (0: unbound)
    ppg_len,        \* len(ppg_filtered)
    i,              \* the loop variable of the sliding window
    visited,        \* the positions the loop body has run for, this pass
    win,            \* the locals of the last run of the loop body
    final_results,  \* the output series of this pass
    log,            \* what was printed
    csv,            \* results files on disk: recording -> number of rows
    filter_i,       \* with_nlms: the index the loop of adaptive_nlms_filter has reached
    call,           \* a function called on its own: its arguments and what it returned
    replay          \* a recording of known content, and the series a first run gave for it

vars == <<script, nfiles, pc, r, imu_file, has_imu, imu_owner, ppg_len, i,
          visited, win, final_results, log, csv, filter_i, call, replay>>

\* no function is called on its own; the recordings are read as they come
NoCall == [fn |-> "none"]
NoReplay == [run |-> 0]

NoWin == [i |-> None, ppg_freq |-> None, ppg_power |-> None,
          motion_freq |-> None, motion_power |-> None, is_artifact |-> FALSE,
          candidate_bpms |-> <<>>, validated_bpms |-> <<>>, bpm |-> None]

Msg(rec, text) == [rec |-> rec, msg |-> text]

Init ==
    /\ script \in Scripts
    /\ nfiles \in 0 .. MaxFiles
    /\ pc = "next_file"
    /\ r = 0
    /\ imu_file = FALSE
    /\ has_imu = FALSE
    /\ imu_owner = 0
    /\ ppg_len = 0
    /\ i = 0
    /\ visited = {}
    /\ win = NoWin
    /\ final_results = <<>>
    /\ log = <<Msg(0, "iniciando")>>
    /\ csv = [q \in {} |-> 0]
    /\ filter_i = 0
    /\ call = NoCall
    /\ replay = NoReplay

\* an uncaught exception of np.load ends the script
Crash(rec, out) ==
    /\ pc' = "crashed"
    /\ log' = Append(out, Msg(rec, "traceback"))
    /\ UNCHANGED <<ppg_len, i, visited, win, final_results, csv>>

\* variant: a pass resumes after the rows the output file already holds
StartPassResume(len, out) ==
    /\ ppg_len' = len
    /\ i' = IF (r + 1) \in DOMAIN csv THEN csv[r + 1] * step_samples ELSE 0
    /\ visited' = {}
    /\ win' = NoWin
    /\ final_results' = <<>>
    /\ log' = out
    /\ UNCHANGED csv

\* the recording is loaded and the window loop is about to start
StartPass(len, out) ==
    /\ ppg_len' = len
    /\ i' = 0
    /\ visited' = {}
    /\ win' = NoWin
    /\ final_results' = <<>>
    /\ log' = out
    /\ UNCHANGED csv

\* variant: an IMU array bound by an earlier recording counts as available
ImuAvailableStale(exists) == exists \/ imu_owner # 0

\* 'has_imu = os.path.exists(imu_path)'
ImuAvailable(exists) == exists

\* vfinal / fft_imu_1 / fft_imu_2: the head of the batch loop body
\* exists: the IMU file is there; ppg_ok, imu_ok: np.load succeeds; len: len(ppg_filtered)
LoadSpectralOf(exists, ppg_ok, imu_ok, len) ==
    LET out == Append(log, Msg(r + 1, "processando")) IN
    /\ pc = "next_file" /\ r < nfiles /\ script \in SpectralScripts
    /\ r' = r + 1
    /\ imu_file' = exists
    /\ has_imu' = ImuAvailable(exists)
    /\ IF ~ppg_ok
       THEN Crash(r + 1, out) /\ UNCHANGED imu_owner
       ELSE IF exists /\ ~imu_ok
       THEN Crash(r + 1, out) /\ UNCHANGED imu_owner
       ELSE /\ imu_owner' = IF exists THEN r + 1 ELSE imu_owner
            /\ pc' = "windows"
            /\ StartPass(len, out)
    /\ UNCHANGED <<script, nfiles, filter_i, call, replay>>

LoadSpectral ==
    \E exists \in BOOLEAN, ppg_ok \in BOOLEAN, imu_ok \in BOOLEAN, len \in Lengths :
        LoadSpectralOf(exists, ppg_ok, imu_ok, len)

\* from_peaks: the IMU file is looked up (and loaded) before the PPG file
LoadPeaks ==
    /\ pc = "next_file" /\ r < nfiles /\ script = "peaks"
    /\ \E exists \in BOOLEAN, ppg_ok \in BOOLEAN, imu_ok \in BOOLEAN, len \in Lengths :
        LET out0 == Append(log, Msg(r + 1, "processando"))
            out == IF exists THEN out0 ELSE Append(out0, Msg(r + 1, "imu_nao_encontrado"))
        IN
        /\ r' = r + 1
        /\ imu_file' = exists
        /\ has_imu' = ImuAvailable(exists)
        /\ IF exists /\ ~imu_ok
           THEN Crash(r + 1, out) /\ UNCHANGED imu_owner
           ELSE IF ~ppg_ok
           THEN /\ Crash(r + 1, out)
                /\ imu_owner' = IF exists THEN r + 1 ELSE imu_owner
           ELSE /\ imu_owner' = IF exists THEN r + 1 ELSE imu_owner
                /\ pc' = "windows"
                /\ StartPass(len, out)
    /\ UNCHANGED <<script, nfiles, filter_i, call, replay>>

\* with_nlms: a recording without IMU file is skipped
LoadNlms ==
    /\ pc = "next_file" /\ r < nfiles /\ script = "nlms"
    /\ \E exists \in BOOLEAN, ppg_ok \in BOOLEAN, imu_ok \in BOOLEAN, len \in Lengths :
        LET out == Append(log, Msg(r + 1, "processando")) IN
        /\ r' = r + 1
        /\ imu_file' = exists
        /\ IF ~exists
           THEN /\ log' = Append(out, Msg(r + 1, "imu_nao_encontrado_pulando"))
                /\ UNCHANGED <<pc, imu_owner, ppg_len, i, visited, win, final_results, csv,
                               filter_i>>
           ELSE IF ~ppg_ok \/ ~imu_ok
           THEN Crash(r + 1, out) /\ UNCHANGED <<imu_owner, filter_i>>
           ELSE /\ imu_owner' = r + 1
                /\ pc' = "nlms"
                /\ filter_i' = NLMS_FILTER_ORDER
                /\ StartPass(len, out)
    /\ UNCHANGED <<script, nfiles, has_imu, call, replay>>

\* 'for i in range(filter_order, n_samples)': the index after the last one taken
FilterEnd(n_samples) ==
    IF n_samples > NLMS_FILTER_ORDER THEN n_samples ELSE NLMS_FILTER_ORDER

\* with_nlms: adaptive_nlms_filter runs over the whole recording
NlmsPrepass ==
    /\ pc = "nlms"
    /\ pc' = "windows"
    /\ filter_i' = FilterEnd(ppg_len)
    /\ UNCHANGED <<script, nfiles, r, imu_file, has_imu, imu_owner, ppg_len, i,
                   visited, win, final_results, log, csv, call, replay>>

\* variant: the loop of the canceller does not advance
NlmsSampleStalls ==
    /\ pc = "nlms" /\ filter_i < ppg_len
    /\ UNCHANGED vars

\* with_nlms: one run of the loop body of adaptive_nlms_filter, which writes
\* cleaned_signal[i] and updates the weights
NlmsSample ==
    /\ pc = "nlms"
    /\ filter_i < ppg_len
    /\ filter_i' = filter_i + 1
    /\ UNCHANGED <<script, nfiles, pc, r, imu_file, has_imu, imu_owner, ppg_len, i,
                   visited, win, final_results, log, csv, call, replay>>

\* variant: the cleaned signal is handed over once the first window is filled
NlmsReturnEarly ==
    /\ pc = "nlms"
    /\ filter_i >= Min(ppg_len, window_samples)
    /\ pc' = "windows"
    /\ UNCHANGED filter_i
    /\ UNCHANGED <<script, nfiles, r, imu_file, has_imu, imu_owner, ppg_len, i,
                   visited, win, final_results, log, csv, call, replay>>

\* with_nlms: the loop of adaptive_nlms_filter is exhausted, 'return cleaned_signal'
NlmsReturn ==
    /\ pc = "nlms"
    /\ filter_i >= ppg_len
    /\ pc' = "windows"
    /\ UNCHANGED filter_i
    /\ UNCHANGED <<script, nfiles, r, imu_file, has_imu, imu_owner, ppg_len, i,
                   visited, win, final_results, log, csv, call, replay>>

\* the extractor of script s called on a window of n samples with spectrum sp;
\* get_dominant_freq of fft_imu_1 returns the frequency only
Extract(s, n, sp, min_hz, max_hz) ==
    LET est == get_dominant_freq_and_power(n, sp, min_hz, max_hz, MinWindowLen(s))
    IN  IF s = "fft1" THEN <<est[1], None>> ELSE est

\* the candidate generator of the spectral scripts
PpgEstimate(s, n, sp) == Extract(s, n, sp, BPM_HZ_MIN(s), BPM_HZ_MAX(s))

MotionEstimate(s, n, sp) == Extract(s, n, sp, MOTION_HZ_MIN, MOTION_HZ_MAX(s))

\* with_nlms: get_bpm_from_fft
get_bpm_from_fft(finite, n, sp) ==
    IF ~finite \/ n = 0 THEN None
    ELSE LET est == get_dominant_freq_and_power(n, sp, BPM_HZ_MIN("nlms"), BPM_HZ_MAX("nlms"), 0)
         IN  IF est[1] # None THEN est[1] * 60 ELSE None

\* from_peaks: 'if len(validated_bpms) >= 2'
EnoughBeats(validated_bpms) == Len(validated_bpms) >= 2

\* variant: an accepted record is put at the head of the series
EndOfBodyPrepend(rec, append) ==
    /\ visited' = visited \cup {i}
    /\ i' = i + step_samples
    /\ win' = rec
    /\ final_results' =
          IF append
          THEN <<[tempo_s |-> WindowStartS(i), bpm |-> rec.bpm]>> \o final_results
          ELSE final_results
    /\ UNCHANGED <<script, nfiles, pc, r, imu_file, has_imu, imu_owner, ppg_len, log, csv,
                   filter_i, call, replay>>

\* variant: a window that contributes no record ends the loop
EndOfBodyBreakOnMiss(rec, append) ==
    /\ visited' = visited \cup {i}
    /\ i' = IF append THEN i + step_samples ELSE i + step_samples + ppg_len
    /\ win' = rec
    /\ final_results' =
          IF append
          THEN Append(final_results, [tempo_s |-> WindowStartS(i), bpm |-> rec.bpm])
          ELSE final_results
    /\ UNCHANGED <<script, nfiles, pc, r, imu_file, has_imu, imu_owner, ppg_len, log, csv,
                   filter_i, call, replay>>

\* one run of the loop body ends: the locals are rec, the record is appended or not
EndOfBody(rec, append) ==
    /\ visited' = visited \cup {i}
    /\ i' = i + step_samples
    /\ win' = rec
    /\ final_results' =
          IF append
          THEN Append(final_results, [tempo_s |-> WindowStartS(i), bpm |-> rec.bpm])
          ELSE final_results
    /\ UNCHANGED <<script, nfiles, pc, r, imu_file, has_imu, imu_owner, ppg_len, log, csv,
                   filter_i, call, replay>>

\* vfinal / fft_imu_1 / fft_imu_2: one window
\* the loop body on a PPG window of spectrum sp_ppg; the spectrum of the IMU
\* magnitude window, if the body gets to read it, is one of imu_spectra
SpectralBody(sp_ppg, imu_spectra) ==
    /\ pc = "windows" /\ script \in SpectralScripts
    /\ InRange(i, ppg_len)
    /\ \E ppg \in {PpgEstimate(script, SliceLen(i, ppg_len), sp_ppg)} :
       \E sp_imu \in IF ppg[1] # None /\ has_imu THEN imu_spectra ELSE {Silent} :
       \E motion \in {IF ppg[1] # None /\ has_imu
                      THEN MotionEstimate(script, SliceLen(i, ppg_len), sp_imu)
                      ELSE <<None, None>>} :
       \E is_artifact \in {ppg[1] # None /\ Validate(script, has_imu, ppg[1], ppg[2], motion)} :
          EndOfBody([NoWin EXCEPT !.i = i, !.ppg_freq = ppg[1], !.ppg_power = ppg[2],
                                  !.motion_freq = motion[1], !.motion_power = motion[2],
                                  !.is_artifact = is_artifact,
                                  !.bpm = IF ppg[1] # None THEN BpmCandidate(ppg[1]) ELSE None],
                    Accepts(ppg[1], is_artifact))

SpectralWindow == \E sp_ppg \in PpgSpectra : SpectralBody(sp_ppg, ImuSpectra)

\* from_peaks: one window
PeaksWindow ==
    /\ pc = "windows" /\ script = "peaks"
    /\ InRange(i, ppg_len)
    /\ \E peaks \in PeakInputs :
       \E candidate_bpms \in {IF Len(peaks) < 2 THEN <<>> ELSE CandidateBpms(InstantBpms(peaks))} :
       \E sp_imu \in IF candidate_bpms # <<>> /\ has_imu THEN ImuSpectraPeaks ELSE {Silent} :
       \E motion_freq \in {IF candidate_bpms # <<>> /\ has_imu THEN get_motion_freq(sp_imu) ELSE None} :
       \E validated_bpms \in {IF candidate_bpms # <<>>
                              THEN ValidatedBpms(candidate_bpms, MotionBpm(has_imu, motion_freq))
                              ELSE <<>>} :
          EndOfBody([NoWin EXCEPT !.i = i, !.motion_freq = motion_freq,
                                  !.candidate_bpms = candidate_bpms,
                                  !.validated_bpms = validated_bpms,
                                  !.bpm = IF EnoughBeats(validated_bpms)
                                          THEN Median(validated_bpms) ELSE None],
                    EnoughBeats(validated_bpms))

\* with_nlms: one window of the cleaned signal
NlmsWindow ==
    /\ pc = "windows" /\ script = "nlms"
    /\ InRange(i, ppg_len)
    /\ \E finite \in BOOLEAN, sp \in PpgSpectra :
       \E bpm \in {get_bpm_from_fft(finite, SliceLen(i, ppg_len), sp)} :
          EndOfBody([NoWin EXCEPT !.i = i, !.bpm = bpm], bpm # None)

\* variant: the series is written whatever its length
SaveResultsAlways ==
    /\ pc = "windows"
    /\ ~InRange(i, ppg_len)
    /\ pc' = "next_file"
    /\ csv' = (r :> Len(final_results)) @@ csv
    /\ log' = Append(log, Msg(r, "salvos"))
    /\ ppg_len' = 0 /\ i' = 0 /\ visited' = {} /\ win' = NoWin /\ final_results' = <<>>
    /\ imu_file' = FALSE /\ has_imu' = FALSE /\ filter_i' = 0
    /\ UNCHANGED <<script, nfiles, r, imu_owner, call, replay>>

\* the loop is over: the series is written, or the script says there is none.
\* The locals of the pass are dead from here on and are cleared.
WriteSeries ==
    /\ pc = "windows"
    /\ ~InRange(i, ppg_len)
    /\ pc' = "next_file"
    /\ IF final_results = <<>>
       THEN /\ log' = Append(log, Msg(r, "nenhuma_janela"))
            /\ UNCHANGED csv
       ELSE /\ csv' = (r :> Len(final_results)) @@ csv
            /\ log' = Append(log, Msg(r, "salvos"))
    /\ ppg_len' = 0 /\ i' = 0 /\ visited' = {} /\ win' = NoWin /\ final_results' = <<>>
    /\ imu_file' = FALSE /\ has_imu' = FALSE /\ filter_i' = 0
    /\ UNCHANGED <<script, nfiles, r, imu_owner, call>>

SaveResults == WriteSeries /\ UNCHANGED replay

\* ppg_files is exhausted
Finish ==
    /\ pc = "next_file" /\ r = nfiles
    /\ pc' = "done"
    /\ log' = Append(log, Msg(0, "concluido"))
    /\ UNCHANGED <<script, nfiles, r, imu_file, has_imu, imu_owner, ppg_len, i,
                   visited, win, final_results, csv, filter_i, call, replay>>

Next ==
    \/ LoadSpectral
    \/ LoadPeaks
    \/ LoadNlms
    \/ NlmsPrepass
    \/ SpectralWindow
    \/ PeaksWindow
    \/ NlmsWindow
    \/ SaveResults
    \/ Finish

Spec == Init /\ [][Next]_vars

\* calculate_bpm_with_nlms over one recording, the canceller taken sample by sample
InitNlms == Init /\ script = "nlms" /\ nfiles = 1

NextNlms ==
    \/ LoadNlms
    \/ NlmsSample
    \/ NlmsReturn
    \/ NlmsWindow
    \/ SaveResults
    \/ Finish

SpecNlms == InitNlms /\ [][NextNlms]_vars

\* any of the five scripts over one recording, run to its end: the process
\* keeps taking steps while it has one to take
InitPass == Init /\ nfiles = 1

NextPass ==
    \/ LoadSpectral
    \/ LoadPeaks
    \/ LoadNlms
    \/ NlmsSample
    \/ NlmsReturn
    \/ SpectralWindow
    \/ PeaksWindow
    \/ NlmsWindow
    \/ SaveResults
    \/ Finish

SpecPass == InitPass /\ [][NextPass]_vars /\ WF_vars(NextPass)

----------------------------------------------------------------------------
(* The helper functions called on their own: the spectral peak extractor  *)
(* of the three spectral scripts on a window of any length and any band,  *)
(* the reduction of a 3-axis IMU window to its magnitude, the classifier *)
(* of a candidate against a motion peak, and the instantaneous BPMs of    *)
(* the peaks of a window.                                                 *)

\* len(data) of the windows the extractor is called on
CallLengths == {0, 5, 9, 10, window_samples}

\* the bands of the scripts, and one whose ends are bin frequencies
CallBands ==
    {<<BPM_HZ_MIN("vfinal"), BPM_HZ_MAX("vfinal")>>,
     <<MOTION_HZ_MIN, MOTION_HZ_MAX("vfinal")>>,
     <<Xf(16), Xf(20)>>}

CallSpectra ==
    {Silent, (6 :> 3), (16 :> 2), (20 :> 1), (33 :> 3),
     (6 :> 3) @@ (16 :> 1), (16 :> 1) @@ (20 :> 2), (16 :> 2) @@ (20 :> 2) @@ (33 :> 3),
     (15 :> 3) @@ (18 :> 1), (21 :> 3) @@ (18 :> 1)}

\* an empty window has an empty, hence silent, transform
CallWindows == {w \in CallLengths \X CallSpectra : w[1] = 0 => w[2] = Silent}

ExtractorCalls ==
    {[fn |-> "extract", variant |-> s, n |-> w[1], sp |-> w[2],
      min_hz |-> b[1], max_hz |-> b[2], raised |-> FALSE, result |-> <<None, None>>] :
        s \in SpectralScripts, w \in CallWindows, b \in CallBands}

\* get_dominant_freq of fft_imu_1 has no guard on len(data): scipy's detrend
\* is handed the empty array, which it rejects with an exception or hands
\* back empty, depending on the release
ExtractorRaises(s, n) == IF s = "fft1" /\ n = 0 THEN BOOLEAN ELSE {FALSE}

CallExtractor ==
    /\ pc = "call" /\ call.fn = "extract"
    /\ \E raised \in ExtractorRaises(call.variant, call.n) :
          call' = [call EXCEPT
                     !.raised = raised,
                     !.result = IF raised THEN <<None, None>>
                                ELSE Extract(call.variant, call.n, call.sp, call.min_hz, call.max_hz)]
    /\ pc' = "returned"
    /\ UNCHANGED <<script, nfiles, r, imu_file, has_imu, imu_owner, ppg_len, i,
                   visited, win, final_results, log, csv, filter_i, replay>>

\* np.sqrt of a sum of squares; the samples below give perfect squares
Isqrt(x) == CHOOSE q \in 0 .. x : q * q <= x /\ (q + 1) * (q + 1) > x

\* variant: the third axis is left out of the sum
imu_magnitudeTwoAxes(imu_window) ==
    [t \in 1 .. Len(imu_window) |->
        Isqrt(imu_window[t][1] * imu_window[t][1] + imu_window[t][2] * imu_window[t][2])]

\* 'imu_magnitude = np.sqrt(np.sum(imu_window**2, axis=1))'
imu_magnitude(imu_window) ==
    [t \in 1 .. Len(imu_window) |->
        Isqrt(imu_window[t][1] * imu_window[t][1] + imu_window[t][2] * imu_window[t][2]
              + imu_window[t][3] * imu_window[t][3])]

\* the permutations of the three axes, and a sample with its axes permuted
AxisPermutations == {p \in [1 .. 3 -> 1 .. 3] : {p[a] : a \in 1 .. 3} = 1 .. 3}
Permuted(sample, p) == [a \in 1 .. 3 |-> sample[p[a]]]

\* 3-axis samples, closed under permutation of the axes
ImuSamples ==
    {Permuted(sample, p) :
        sample \in {<<0, 0, 0>>, <<1, 0, 0>>, <<0 - 3, 4, 0>>, <<1, 0 - 2, 2>>, <<2, 3, 6>>},
        p \in AxisPermutations}

ImuWindows == UNION {[1 .. n -> ImuSamples] : n \in 0 .. MaxImuSamples}

MagnitudeCalls ==
    {[fn |-> "magnitude", imu_window |-> w, raised |-> FALSE, result |-> <<>>] :
        w \in ImuWindows}

CallMagnitude ==
    /\ pc = "call" /\ call.fn = "magnitude"
    /\ call' = [call EXCEPT !.result = imu_magnitude(call.imu_window)]
    /\ pc' = "returned"
    /\ UNCHANGED <<script, nfiles, r, imu_file, has_imu, imu_owner, ppg_len, i,
                   visited, win, final_results, log, csv, filter_i, replay>>

\* the "detector de mentiras" of a script on one candidate and one motion
\* peak; fft_imu_1 reads no power
ClassifierFreqs == {Xf(8), Xf(16), Xf(18), Xf(20)}
ClassifierMotionFreqs == {None, 0, Xf(9), Xf(10), Xf(16)}
ClassifierPowers == {1, 2, 4}
ClassifierMotionPowers == {None, 0, 1, 2}

ClassifierCalls ==
    {[fn |-> "classify", variant |-> s, ppg_freq |-> f, ppg_power |-> p,
      motion_freq |-> m, motion_power |-> q, raised |-> FALSE, result |-> FALSE] :
        s \in SpectralScripts, f \in ClassifierFreqs, p \in ClassifierPowers,
        m \in ClassifierMotionFreqs, q \in ClassifierMotionPowers}

CallClassifier ==
    /\ pc = "call" /\ call.fn = "classify"
    /\ call' = [call EXCEPT !.result = IsArtifact(call.variant, call.ppg_freq, call.ppg_power,
                                                  call.motion_freq, call.motion_power)]
    /\ pc' = "returned"
    /\ UNCHANGED <<script, nfiles, r, imu_file, has_imu, imu_owner, ppg_len, i,
                   visited, win, final_results, log, csv, filter_i, replay>>

\* lines 73 to 77 of from_peaks on the peaks of one window: find_peaks hands
\* back indices at least MIN_DISTANCE_SAMPLES apart
CallGapChoices == {100, 124, 125, 126, 600, 601}
CallGapCounts == {0, 1, 2, 3}

CandidateCalls ==
    {[fn |-> "candidates", peaks |-> PeaksFrom(1, gaps), instant_bpms |-> <<>>,
      raised |-> FALSE, result |-> <<>>] :
        gaps \in UNION {[1 .. n -> {g \in CallGapChoices : g >= MIN_DISTANCE_SAMPLES}] :
                          n \in CallGapCounts}}

CallCandidates ==
    /\ pc = "call" /\ call.fn = "candidates"
    /\ call' = [call EXCEPT !.instant_bpms = InstantBpms(call.peaks),
                            !.result = CandidateBpms(InstantBpms(call.peaks))]
    /\ pc' = "returned"
    /\ UNCHANGED <<script, nfiles, r, imu_file, has_imu, imu_owner, ppg_len, i,
                   visited, win, final_results, log, csv, filter_i, replay>>

InitCalls ==
    /\ script = "vfinal" /\ nfiles = 0 /\ pc = "call" /\ r = 0
    /\ imu_file = FALSE /\ has_imu = FALSE /\ imu_owner = 0
    /\ ppg_len = 0 /\ i = 0 /\ visited = {} /\ win = NoWin
    /\ final_results = <<>> /\ log = <<>> /\ csv = [q \in {} |-> 0]
    /\ filter_i = 0 /\ replay = NoReplay
    /\ call \in ExtractorCalls \cup MagnitudeCalls \cup ClassifierCalls \cup CandidateCalls

NextCalls ==
    \/ CallExtractor
    \/ CallMagnitude
    \/ CallClassifier
    \/ CallCandidates

SpecCalls == InitCalls /\ [][NextCalls]_vars

----------------------------------------------------------------------------
(* One spectral script run twice, one process after the other, over a     *)
(* directory holding one recording of known content.  The content is      *)
(* fixed when the recording is drawn: its length, whether its IMU file    *)
(* exists, and the magnitude spectrum of each window of the PPG and of    *)
(* the IMU magnitude.  What the first run wrote is on disk for the second.*)

\* the windows that lie wholly inside a recording, at multiples of the step
FullWindowCount(len) ==
    IF len < window_samples THEN 0 ELSE (len - window_samples) \div step_samples + 1

\* the window that starts at sample pos
WindowIndex(pos) == pos \div step_samples + 1

TapeAt(tape, k) ==
    IF k \in DOMAIN tape THEN tape[k]
    ELSE IF tape = <<>> THEN Silent ELSE tape[Len(tape)]

\* a sine of 2 Hz sampled at FS: in every window of window_samples samples,
\* after signal.detrend, the Hann taper and rfft(n=FFT_LENGTH), the
\* magnitudes of bins 14 .. 19, rounded; the other bins stay below these
ToneSpectrum ==
    (14 :> 27) @@ (15 :> 255) @@ (16 :> 912) @@ (17 :> 787) @@ (18 :> 131) @@ (19 :> 22)

ToneLength == 2 * window_samples

\* the tone next to an IMU file of zeros
ToneRecording ==
    [len |-> ToneLength, imu |-> TRUE,
     ppg |-> [k \in 1 .. FullWindowCount(ToneLength) |-> ToneSpectrum],
     imu_sp |-> [k \in 1 .. FullWindowCount(ToneLength) |-> Silent]]

TapePpg == {Silent, (16 :> 2), (20 :> 1)}
TapeImu == {Silent, (16 :> 3), (10 :> 1)}

Recordings ==
    {ToneRecording} \cup
    UNION {{[len |-> n, imu |-> e, ppg |-> p, imu_sp |-> m] :
                e \in BOOLEAN,
                p \in [1 .. FullWindowCount(n) -> TapePpg],
                m \in [1 .. FullWindowCount(n) -> TapeImu]} : n \in Lengths}

InitTwice ==
    /\ script \in SpectralScripts
    /\ nfiles = 1
    /\ pc = "next_file"
    /\ r = 0
    /\ imu_file = FALSE
    /\ has_imu = FALSE
    /\ imu_owner = 0
    /\ ppg_len = 0
    /\ i = 0
    /\ visited = {}
    /\ win = NoWin
    /\ final_results = <<>>
    /\ log = <<Msg(0, "iniciando")>>
    /\ csv = [q \in {} |-> 0]
    /\ filter_i = 0
    /\ call = NoCall
    /\ \E rec \in Recordings :
          /\ ~rec.imu => \A k \in DOMAIN rec.imu_sp : rec.imu_sp[k] = Silent
          /\ replay = [run |-> 1, recording |-> rec, series |-> <<>>]

LoadReplay == LoadSpectralOf(replay.recording.imu, TRUE, TRUE, replay.recording.len)

ReplayWindow ==
    SpectralBody(TapeAt(replay.recording.ppg, WindowIndex(i)),
                 {TapeAt(replay.recording.imu_sp, WindowIndex(i))})

\* replay.series keeps the series each run handed to to_csv
SaveReplay ==
    /\ WriteSeries
    /\ replay' = [replay EXCEPT !.series = Append(@, final_results)]

\* the script is started again: a new process, the same directory
RunAgain ==
    /\ pc = "done" /\ replay.run = 1
    /\ replay' = [replay EXCEPT !.run = 2]
    /\ pc' = "next_file"
    /\ r' = 0
    /\ imu_file' = FALSE /\ has_imu' = FALSE /\ imu_owner' = 0
    /\ ppg_len' = 0 /\ i' = 0 /\ visited' = {} /\ win' = NoWin /\ final_results' = <<>>
    /\ log' = <<Msg(0, "iniciando")>>
    /\ filter_i' = 0
    /\ UNCHANGED <<script, nfiles, csv, call>>

NextTwice ==
    \/ LoadReplay
    \/ ReplayWindow
    \/ SaveReplay
    \/ Finish
    \/ RunAgain

SpecTwice == InitTwice /\ [][NextTwice]_vars

----------------------------------------------------------------------------
(* adaptive_nlms_filter called on its own, twice side by side: on a pair  *)
(* of signals and on a second pair that agrees with the first up to an    *)
(* index and differs after it.  The floating-point numbers of the code    *)
(* are exact fractions <<numerator, denominator>> here.                   *)

RECURSIVE Gcd(_, _)
Gcd(a, b) == IF b = 0 THEN a ELSE Gcd(b, a % b)

\* a fraction in lowest terms, the denominator positive
Frac(n, d) ==
    LET g == Gcd(Abs(n), Abs(d)) IN
    IF d < 0 THEN <<(0 - n) \div g, (0 - d) \div g>> ELSE <<n \div g, d \div g>>

RAdd(x, y) ==
    LET g == Gcd(x[2], y[2]) IN
    Frac(x[1] * (y[2] \div g) + y[1] * (x[2] \div g), (x[2] \div g) * y[2])
RNeg(x) == <<0 - x[1], x[2]>>
RSub(x, y) == RAdd(x, RNeg(y))
\* the factors are cancelled crosswise before they are multiplied
RMul(x, y) ==
    LET a == Frac(x[1], y[2])
        b == Frac(y[1], x[2])
    IN  Frac(a[1] * b[1], a[2] * b[2])
RDiv(x, y) == RMul(x, Frac(y[2], y[1]))
RZero == <<0, 1>>

RECURSIVE RSum(_)
RSum(seq) == IF seq = <<>> THEN RZero ELSE RAdd(seq[1], RSum(Tail(seq)))

\* np.dot of two vectors of the same length
RDot(u, v) == RSum([k \in 1 .. Len(u) |-> RMul(u[k], v[k])])

\* 'NLMS_LEARNING_RATE = 0.01' and 'epsilon = 1e-6'
NLMS_LEARNING_RATE == <<1, 100>>
epsilonZero == <<0, 1>>
epsilon == <<1, 1000000>>

\* 'ref_window = reference_signal[i - filter_order : i][::-1]'; the Python
\* index p of a signal is the index p + 1 of its sequence
ref_window(reference_signal, filter_order, idx) ==
    [k \in 1 .. filter_order |-> reference_signal[(idx - k) + 1]]

\* variant: the estimate of the noise also weighs the sample after the current one
predicted_noiseLookahead(weights, window, reference_signal, idx) ==
    IF idx + 1 < Len(reference_signal)
    THEN RAdd(RDot(weights, window), reference_signal[(idx + 1) + 1])
    ELSE RDot(weights, window)

\* 'predicted_noise = np.dot(weights, ref_window)'
predicted_noise(weights, window, reference_signal, idx) == RDot(weights, window)

\* one run of the loop body, lines 36 to 50, at index idx, on the state st of a call
NlmsBody(st, primary_signal, reference_signal, filter_order, learning_rate, idx) ==
    LET window == ref_window(reference_signal, filter_order, idx)
        error == RSub(primary_signal[idx + 1],
                      predicted_noise(st.weights, window, reference_signal, idx))
        energy == RDot(window, window)
        denominator == RAdd(energy, epsilon)
        step_size == IF denominator[1] = 0 THEN RZero ELSE RDiv(learning_rate, denominator)
    IN  [weights |-> [k \in 1 .. filter_order |->
                         RAdd(st.weights[k], RMul(RMul(step_size, error), window[k]))],
         cleaned_signal |-> [st.cleaned_signal EXCEPT ![idx + 1] = error],
         updates |-> Append(st.updates, idx),
         zero_division |-> st.zero_division \/ denominator[1] = 0]

\* variant: the first filter_order samples are handed through
FilterStateCopiesHead(primary_signal, filter_order) ==
    [weights |-> [k \in 1 .. filter_order |-> RZero],
     cleaned_signal |-> [t \in 1 .. Len(primary_signal) |->
                            IF t <= filter_order THEN primary_signal[t] ELSE RZero],
     updates |-> <<>>,
     zero_division |-> FALSE]

\* lines 30 to 33: weights and cleaned_signal start as zeros
FilterState(primary_signal, filter_order) ==
    [weights |-> [k \in 1 .. filter_order |-> RZero],
     cleaned_signal |-> [t \in 1 .. Len(primary_signal) |-> RZero],
     updates |-> <<>>,
     zero_division |-> FALSE]

NoFilterState == [weights |-> <<>>, cleaned_signal |-> <<>>, updates |-> <<>>,
                  zero_division |-> FALSE]

\* the sample values: the reference in thousandths, so that energy + epsilon
\* is a small fraction
PrimarySamples == {<<0 - 1, 1>>, <<0, 1>>, <<2, 1>>}
ReferenceSamples == {<<0, 1>>, <<1, 1000>>, <<1, 500>>}
FilterOrders == {0, 1, 2}
\* the loop body runs at most this often in a call
FilterRuns == {0, 1, 2}

\* the samples after index cut (Python index) are replaced by others
OtherPrimary(x) == IF x = <<2, 1>> THEN <<0 - 1, 1>> ELSE <<2, 1>>
OtherReference(x) == IF x = <<0, 1>> THEN <<1, 1000>> ELSE <<0, 1>>
AlteredPrimary(signal, cut) ==
    [t \in 1 .. Len(signal) |-> IF t - 1 > cut THEN OtherPrimary(signal[t]) ELSE signal[t]]
AlteredReference(signal, cut) ==
    [t \in 1 .. Len(signal) |-> IF t - 1 > cut THEN OtherReference(signal[t]) ELSE signal[t]]

FilterShapes ==
    {<<0, 0>>, <<1, 0>>} \cup
    {<<m + e, m>> : m \in FilterOrders, e \in FilterRuns}

\* a call on a pair of signals of one length, next to it the altered pair
FilterCall(filter_order, p, q, c) ==
    [fn |-> "nlms", filter_order |-> filter_order, learning_rate |-> NLMS_LEARNING_RATE,
     primary_signal |-> p, reference_signal |-> q, cut |-> c,
     primary_other |-> AlteredPrimary(p, c),
     reference_other |-> AlteredReference(q, c),
     run |-> NoFilterState, other |-> NoFilterState,
     raised |-> FALSE, result |-> <<>>]

InitFilter ==
    /\ script = "nlms" /\ nfiles = 0 /\ pc = "call" /\ r = 0
    /\ imu_file = FALSE /\ has_imu = FALSE /\ imu_owner = 0
    /\ ppg_len = 0 /\ i = 0 /\ visited = {} /\ win = NoWin
    /\ final_results = <<>> /\ log = <<>> /\ csv = [q \in {} |-> 0]
    /\ filter_i = 0 /\ replay = NoReplay
    /\ \E shape \in FilterShapes :
       \E p \in [1 .. shape[1] -> PrimarySamples], q \in [1 .. shape[1] -> ReferenceSamples],
          c \in 0 .. shape[1] :
          call = FilterCall(shape[2], p, q, c)

\* lines 30 to 35: the arrays are made and range(filter_order, n_samples) starts
FilterStart ==
    /\ pc = "call" /\ call.fn = "nlms"
    /\ call' = [call EXCEPT
                  !.run = FilterState(call.primary_signal, call.filter_order),
                  !.other = FilterState(call.primary_other, call.filter_order)]
    /\ filter_i' = call.filter_order
    /\ pc' = "filter"
    /\ UNCHANGED <<script, nfiles, r, imu_file, has_imu, imu_owner, ppg_len, i,
                   visited, win, final_results, log, csv, replay>>

FilterStep ==
    /\ pc = "filter" /\ filter_i < Len(call.primary_signal)
    /\ call' = [call EXCEPT
                  !.run = NlmsBody(call.run, call.primary_signal, call.reference_signal,
                                   call.filter_order, call.learning_rate, filter_i),
                  !.other = NlmsBody(call.other, call.primary_other, call.reference_other,
                                     call.filter_order, call.learning_rate, filter_i)]
    /\ filter_i' = filter_i + 1
    /\ UNCHANGED <<script, nfiles, pc, r, imu_file, has_imu, imu_owner, ppg_len, i,
                   visited, win, final_results, log, csv, replay>>

\* 'return cleaned_signal'
FilterReturn ==
    /\ pc = "filter" /\ filter_i >= Len(call.primary_signal)
    /\ call' = [call EXCEPT !.result = call.run.cleaned_signal]
    /\ pc' = "returned"
    /\ UNCHANGED <<script, nfiles, r, imu_file, has_imu, imu_owner, ppg_len, i,
                   visited, win, final_results, log, csv, filter_i, replay>>

NextFilter ==
    \/ FilterStart
    \/ FilterStep
    \/ FilterReturn

SpecFilter == InitFilter /\ [][NextFilter]_vars

TypeOK ==
    /\ script \in Scripts
    /\ pc \in {"next_file", "nlms", "windows", "done", "crashed"}
    /\ r \in 0 .. nfiles
    /\ i \in Nat

----------------------------------------------------------------------------
(* Properties *)

HasMsg(lg, rec, text) == \E k \in 1 .. Len(lg) : lg[k] = Msg(rec, text)

\* the loop of the current pass is over and the series is about to be saved
LoopOver == pc = "windows" /\ ~InRange(i, ppg_len)

\* a step that ran the loop body once
BodyStep == pc = "windows" /\ pc' = "windows" /\ visited' # visited

\* the step that ends the pass over recording r
SaveStep == pc = "windows" /\ pc' = "next_file"

\* the step that takes recording r + 1 from ppg_files
LoadStep == pc = "next_file" /\ r' = r + 1

FullWindows(len) ==
    {p \in 0 .. len : p % step_samples = 0 /\ p + window_samples <= len}

\* C1: when the loop of a pass ends, the positions visited are exactly the
\* multiples of the step whose window fits in the signal (i + W <= L): a
\* window that ends exactly at the final sample is analysed.
C1_VisitsEveryFullWindow == LoopOver => visited = FullWindows(ppg_len)

\* C2: in the spectral scripts, a run of the loop body at position i appends a
\* record if and only if a PPG peak was found and it was not marked artifact;
\* the record is (i / FS, ppg_freq * 60); every record of the series belongs to
\* a position the loop visited.
C2_AppendIffAccepted ==
    /\ [][(BodyStep /\ script \in SpectralScripts) =>
            /\ win'.i = i /\ visited' = visited \cup {i}
            /\ IF win'.ppg_freq # None /\ ~win'.is_artifact
               THEN /\ Len(final_results') = Len(final_results) + 1
                    /\ SubSeq(final_results', 1, Len(final_results)) = final_results
                    /\ final_results'[Len(final_results')].tempo_s * FS = i * MsPerSecond
                    /\ final_results'[Len(final_results')].bpm = win'.ppg_freq * 60
               ELSE final_results' = final_results]_vars
    /\ [](script \in SpectralScripts =>
            \A k \in 1 .. Len(final_results) :
                \E p \in visited : final_results[k].tempo_s * FS = p * MsPerSecond)

C2_Witness ==
    /\ script \in SpectralScripts /\ pc = "windows"
    /\ Len(final_results) = 1 /\ win.is_artifact /\ win.i = step_samples

\* C3: during a pass the series is in strictly ascending timestamp order, holds
\* at most one record per visited window, and only grows by appending.
C3_AscendingAppendOnly ==
    /\ [](\A k \in 1 .. (Len(final_results) - 1) :
            final_results[k].tempo_s < final_results[k + 1].tempo_s)
    /\ [](Len(final_results) <= Cardinality(visited))
    /\ [][(pc = "windows" /\ pc' = "windows") =>
            /\ Len(final_results') \in {Len(final_results), Len(final_results) + 1}
            /\ SubSeq(final_results', 1, Len(final_results)) = final_results]_vars

C3_Witness == pc = "windows" /\ Len(final_results) >= 2

\* the last run of the loop body of a spectral script produced a candidate
HasCandidate == script \in SpectralScripts /\ win.i # None /\ win.ppg_freq # None

Collides(ppg_freq, motion_freq, threshold_hz) ==
    \/ Abs(ppg_freq - motion_freq) < threshold_hz
    \/ Abs(ppg_freq - 2 * motion_freq) < threshold_hz

\* frequencies and powers the classifier is probed with, besides the windows' own
ProbeFreqs == {Xf(k) : k \in {7, 16, 20, 32}}
ProbePowers == {0, 1, 10}

\* C4: a candidate is never marked artifact when the recording has no IMU
\* signal or the motion extraction of the window returned no estimate,
\* whatever ppg_freq and ppg_power are, under the naive and the power policy.
C4_NoMotionNoArtifact ==
    /\ (HasCandidate /\ (~has_imu \/ win.motion_freq = None)) => ~win.is_artifact
    /\ \A s \in SpectralScripts, f \in ProbeFreqs, p \in ProbePowers :
          /\ ~Validate(s, FALSE, f, p, <<None, None>>)
          /\ ~Validate(s, TRUE, f, p, <<None, None>>)

C4_Witness ==
    /\ HasCandidate /\ has_imu /\ win.motion_freq = None
    /\ Len(final_results) >= 1

\* C5: naive classifier (fft_imu_1), motion estimate present: artifact if and
\* only if |ppg - motion| < 0.2 Hz or |ppg - 2*motion| < 0.2 Hz, strictly;
\* 2.0 Hz against 2.05 Hz and against 1.0 Hz are both artifacts.
C5_NaiveCollision ==
    /\ (HasCandidate /\ script = "fft1" /\ has_imu /\ win.motion_freq # None) =>
          (win.is_artifact <=> Collides(win.ppg_freq, win.motion_freq, 2048))
    /\ IsArtifactNaive(20480, 20992, 2048)
    /\ IsArtifactNaive(20480, 10240, 2048)
    /\ ~IsArtifactNaive(20480, 22528, 2048)
    /\ ~IsArtifactNaive(20480, 11264, 2048)

C5_Witness ==
    /\ HasCandidate /\ script = "fft1" /\ has_imu /\ win.is_artifact
    /\ Abs(win.ppg_freq - win.motion_freq) >= 2048

C7_ArtifactOnlyIfMotionStronger ==
    (HasCandidate /\ script \in {"vfinal", "fft2"} /\ win.is_artifact) =>
        win.motion_power > win.ppg_power

\* the record a run of the loop body appended, if it appended one
Appended == Len(final_results') = Len(final_results) + 1

\* without IMU file every candidate of the window is accepted, unclassified
AcceptsEveryCandidate ==
    (BodyStep /\ ~imu_file) =>
        /\ script \in SpectralScripts => (win'.ppg_freq # None <=> Appended)
        /\ script = "peaks" => (Len(win'.candidate_bpms) >= 2 <=> Appended)
        /\ ~win'.is_artifact /\ win'.motion_freq = None

C9_NoImuIsFlagged ==
    [][(SaveStep /\ ~imu_file) => HasMsg(log', r, "imu_nao_encontrado")]_vars

\* C10 as stated: a pass that ends with zero accepted windows produces an
\* empty, zero-row series.
C10_EmptySeriesWritten ==
    [][(SaveStep /\ final_results = <<>>) => (r \in DOMAIN csv' /\ csv'[r] = 0)]_vars

\* C10 as amended: a pass that ends with zero accepted windows writes no
\* series; its observable outcome is the log line that no window was found,
\* which the outcome of a recording whose processing failed (an uncaught
\* exception, no such line, no series either) does not carry.
C10_EmptyIsLoggedNotWritten ==
    /\ [][(SaveStep /\ final_results = <<>>) =>
            /\ r \notin DOMAIN csv'
            /\ HasMsg(log', r, "nenhuma_janela")
            /\ ~HasMsg(log', r, "traceback")]_vars
    /\ [][(SaveStep /\ final_results # <<>>) =>
            /\ r \in DOMAIN csv' /\ csv'[r] = Len(final_results)
            /\ ~HasMsg(log', r, "nenhuma_janela")]_vars
    /\ [](pc = "crashed" =>
            /\ HasMsg(log, r, "traceback")
            /\ ~HasMsg(log, r, "nenhuma_janela")
            /\ r \notin DOMAIN csv)

C10_Witness ==
    /\ pc = "next_file" /\ r >= 1
    /\ HasMsg(log, r, "nenhuma_janela") /\ r \notin DOMAIN csv
    /\ \E q \in 1 .. r : HasMsg(log, q, "salvos")

\* C11: a failure while loading or processing one recording never aborts the
\* batch: the script is never stopped by that failure while recordings of
\* ppg_files are still to be taken.
C11_FailureNeverAborts == ~(pc = "crashed" /\ r < nfiles)

\* the run of the loop body that left the locals w found no candidate:
\* no in-band spectral peak, or too few time-domain peaks
NoCandidate(w) ==
    IF script \in SpectralScripts THEN w.ppg_freq = None
    ELSE IF script = "peaks" THEN w.candidate_bpms = <<>>
    ELSE w.bpm = None

\* the positions the loop bound of the scripts admits
LoopPositions(len) ==
    {p \in {k * step_samples : k \in 0 .. (len \div step_samples)} : InRange(p, len)}

\* C12: a window without candidate contributes no record and raises no
\* error, and the loop goes on with the next position: when the loop ends,
\* every position the loop bound admits has been visited.
C12_NoCandidateContinues ==
    /\ [][(BodyStep /\ NoCandidate(win')) =>
            /\ final_results' = final_results
            /\ i' = i + step_samples
            /\ ~HasMsg(log', r, "traceback")]_vars
    /\ [][(pc = "windows") => pc' # "crashed"]_vars
    /\ [](LoopOver => visited = LoopPositions(ppg_len))

C12_Witness ==
    /\ script \in SpectralScripts /\ pc = "windows" /\ ~has_imu
    /\ visited = {0, step_samples}
    /\ Len(final_results) = 1 /\ final_results[1].tempo_s = MsPerSecond

\* more than 15 BPM away from the motion BPM
FarFromMotion(bpm, motion_bpm) ==
    bpm - motion_bpm > 15 * HzScale \/ motion_bpm - bpm > 15 * HzScale

\* what the claim lets survive of the in-range values of the locals w
Survivors(w) ==
    IF w.motion_freq # None /\ w.motion_freq # 0
    THEN SelectSeq(w.candidate_bpms, LAMBDA b : FarFromMotion(b, w.motion_freq * 60))
    ELSE w.candidate_bpms

\* the k-th smallest entry of seq, by counting
KthSmallest(seq, k) ==
    CHOOSE v \in {seq[j] : j \in DOMAIN seq} :
        /\ Cardinality({j \in DOMAIN seq : seq[j] < v}) < k
        /\ k <= Cardinality({j \in DOMAIN seq : seq[j] <= v})

MiddleValue(seq) ==
    IF Len(seq) % 2 = 1
    THEN KthSmallest(seq, (Len(seq) + 1) \div 2)
    ELSE (KthSmallest(seq, Len(seq) \div 2) + KthSmallest(seq, Len(seq) \div 2 + 1)) \div 2

C20_CancellerBeforeWindows ==
    /\ [][(pc = "nlms" /\ filter_i' # filter_i) =>
            /\ filter_i >= NLMS_FILTER_ORDER /\ filter_i' = filter_i + 1
            /\ filter_i' <= ppg_len
            /\ pc' = "nlms" /\ visited' = {} /\ final_results' = <<>>]_vars
    /\ []((script = "nlms" /\ pc = "windows") =>
            (filter_i >= ppg_len /\ filter_i >= NLMS_FILTER_ORDER))
    /\ []((script = "nlms" /\ pc = "nlms") => (visited = {} /\ win.i = None))

C20_Witness ==
    /\ script = "nlms" /\ pc = "windows"
    /\ filter_i = ppg_len /\ ppg_len > window_samples
    /\ visited # {} /\ Len(final_results) >= 1

\* the call under examination has returned
Returned == pc = "returned"

\* the frequency of bin k of the transform, in 1/10240 Hz
BinFrequency(k) == (k * FS * HzScale) \div FFT_LENGTH

\* the bins of the spectrum of call c with nonzero magnitude and frequency in the band
InBandBins(c) ==
    {k \in DOMAIN c.sp :
        c.sp[k] > 0 /\ c.min_hz <= BinFrequency(k) /\ BinFrequency(k) <= c.max_hz}

\* C15: the extractor (vfinal, fft_imu_2) on a window long enough to be
\* transformed: if some bin with frequency in [min_hz, max_hz], ends included,
\* has nonzero magnitude, the result is the frequency of an in-band bin of
\* maximal magnitude and that magnitude (> 0); otherwise it is None.  The
\* bins outside the band do not influence the result.
C15_ExtractorResult ==
    (Returned /\ call.fn = "extract" /\ call.variant \in {"vfinal", "fft2"} /\ call.n >= 10) =>
        /\ ~call.raised
        /\ IF InBandBins(call) = {}
           THEN call.result = <<None, None>>
           ELSE \E k \in InBandBins(call) :
                   /\ call.result = <<BinFrequency(k), call.sp[k]>>
                   /\ \A j \in InBandBins(call) : call.sp[j] <= call.sp[k]
                   /\ call.min_hz <= call.result[1] /\ call.result[1] <= call.max_hz
                   /\ call.result[2] > 0
        /\ call.result = Extract(call.variant, call.n,
                                 [k \in InBandBins(call) |-> call.sp[k]],
                                 call.min_hz, call.max_hz)

C15_Witness ==
    /\ Returned /\ call.fn = "extract" /\ call.variant = "fft2" /\ call.n = 10
    /\ 33 \in DOMAIN call.sp /\ call.max_hz < BinFrequency(33)
    /\ call.min_hz = BinFrequency(16)
    /\ call.result = <<BinFrequency(16), 2>>

\* C16: the extractor on an all-zero window of at least 10 samples returns
\* None for every band, in every variant; it never returns a frequency with
\* power 0.
C16_SilentGivesNone ==
    (Returned /\ call.fn = "extract") =>
        /\ (call.sp = Silent /\ call.n >= 10) => (call.result = <<None, None>> /\ ~call.raised)
        /\ call.result[2] # 0
        /\ (call.result[1] # None /\ call.variant # "fft1") => call.result[2] > 0

C16_Witness ==
    /\ Returned /\ call.fn = "extract" /\ call.sp = Silent
    /\ call.n = window_samples /\ call.variant = "fft1"
    /\ call.result = <<None, None>>

\* C17: in every variant of the extractor a window of fewer than 10 samples,
\* the empty one included, returns None at once and raises no error.
C17_ShortGivesNone ==
    (Returned /\ call.fn = "extract" /\ call.n < 10) =>
        (call.result = <<None, None>> /\ ~call.raised)

\* the sum of the squares of the axes of a sample
SquareSum(sample) == sample[1] * sample[1] + sample[2] * sample[2] + sample[3] * sample[3]

\* C18: the magnitude of a 3-axis window has one value per sample, whose
\* square is x^2 + y^2 + z^2; an all-zero window gives all zeros; permuting
\* the axes does not change the result.
C18_MagnitudeReducer ==
    (Returned /\ call.fn = "magnitude") =>
        /\ Len(call.result) = Len(call.imu_window)
        /\ \A t \in 1 .. Len(call.imu_window) :
              /\ call.result[t] >= 0
              /\ call.result[t] * call.result[t] = SquareSum(call.imu_window[t])
              /\ call.imu_window[t] = <<0, 0, 0>> => call.result[t] = 0
        /\ \A p \in AxisPermutations :
              imu_magnitude([t \in 1 .. Len(call.imu_window) |->
                                Permuted(call.imu_window[t], p)]) = call.result

C18_Witness ==
    /\ Returned /\ call.fn = "magnitude"
    /\ call.imu_window = <<<<0, 0, 0>>, <<6, 2, 3>>>>
    /\ call.result = <<0, 7>>

\* a run of the script over the recording has handed its series to to_csv
RunsSaved == IF replay.run = 0 THEN 0 ELSE Len(replay.series)

ToneSaved == script = "fft1" /\ RunsSaved >= 1 /\ replay.recording = ToneRecording

\* 120 BPM within the width of one FFT bin, in BPM
NearToneBpm(bpm) == Abs(bpm - 120 * HzScale) <= 60 * BinFrequency(1)

\* C14 as stated: the 8000-sample 2 Hz tone with an all-zero IMU file, run
\* through the spectral strategy with the naive classifier, gives a series
\* with one entry, whose value is 120 BPM within one FFT bin.
C14_ToneOneEntry ==
    ToneSaved =>
        /\ Len(replay.series[1]) = 1
        /\ NearToneBpm(replay.series[1][1].bpm)

\* C14 amended: the same scenario gives a series with one entry for each of
\* the 8 windows the loop visits, at 0 s, 1 s, ..., 7 s, each of value
\* 117.1875 BPM (bin 16), which is 120 BPM within one FFT bin.
C14_ToneEveryWindow ==
    ToneSaved =>
        /\ Len(replay.series[1]) = 8
        /\ \A k \in 1 .. Len(replay.series[1]) :
              /\ replay.series[1][k].tempo_s = (k - 1) * MsPerSecond
              /\ replay.series[1][k].bpm = BpmCandidate(BinFrequency(16))
              /\ NearToneBpm(replay.series[1][k].bpm)

C14_Witness ==
    /\ ToneSaved /\ pc = "done"
    /\ Len(replay.series[1]) = 8
    /\ replay.series[1][8] = [tempo_s |-> 7 * MsPerSecond, bpm |-> 1200000]

\* adaptive_nlms_filter has made its arrays: the loop runs or the call is over
FilterRunning == call.fn = "nlms" /\ pc \in {"filter", "returned"}
FilterReturned == call.fn = "nlms" /\ pc = "returned"
AllZero(seq) == \A t \in 1 .. Len(seq) : seq[t] = RZero

\* C21: for a primary/reference pair of length N and any order the output of
\* adaptive_nlms_filter has exactly N samples and output[i] = 0 for every
\* i < order; when N <= order the whole output is zero and the weights are
\* never updated.
C21_OutputShape ==
    /\ FilterRunning =>
          /\ Len(call.run.cleaned_signal) = Len(call.primary_signal)
          /\ \A t \in 1 .. Len(call.primary_signal) :
                t <= call.filter_order => call.run.cleaned_signal[t] = RZero
    /\ FilterReturned =>
          /\ call.result = call.run.cleaned_signal
          /\ Len(call.primary_signal) <= call.filter_order =>
                /\ AllZero(call.result)
                /\ call.run.updates = <<>>
                /\ AllZero(call.run.weights)

\* a call of order 2 on 4 samples whose first two are not zero: the head of the
\* output is zero, the rest is not
C21_Witness ==
    /\ FilterReturned
    /\ call.filter_order = 2 /\ Len(call.primary_signal) = 4
    /\ call.primary_signal[1] # RZero /\ call.primary_signal[2] # RZero
    /\ call.result[1] = RZero /\ call.result[2] = RZero
    /\ call.result[3] # RZero /\ call.result[4] # RZero

\* the loop body of adaptive_nlms_filter runs for index filter_i
FilterBodyStep == pc = "filter" /\ pc' = "filter" /\ filter_i' = filter_i + 1

\* C22: at each index i >= order the output is primary[i] minus the sum over
\* k = 0 .. order-1 of weight[k] * reference[i-k], the window of the order most
\* recent reference samples ending at index i, the most recent first.
C22_WindowEndsAtCurrentSample ==
    [][FilterBodyStep =>
          call'.run.cleaned_signal[filter_i + 1] =
              RSub(call.primary_signal[filter_i + 1],
                   RSum([k \in 1 .. call.filter_order |->
                            RMul(call.run.weights[k],
                                 call.reference_signal[(filter_i - (k - 1)) + 1])]))]_vars

\* the Python indices 0 .. idx of a signal
Prefix(signal, idx) == [t \in 1 .. Min(idx + 1, Len(signal)) |-> signal[t]]

\* the indices range(filter_order, n_samples) has yielded before index idx
IndicesBefore(filter_order, idx) ==
    [t \in 1 .. (IF idx > filter_order THEN idx - filter_order ELSE 0) |-> filter_order + t - 1]

\* C23: two runs of adaptive_nlms_filter whose primary and reference signals
\* agree on the indices 0 .. i give the same output[i] and the same weights
\* after step i, whatever the samples after i are; the weights are updated
\* once for each index, in increasing order of the index.
C23_NoLookahead ==
    FilterRunning =>
        /\ Prefix(call.primary_signal, call.cut) = Prefix(call.primary_other, call.cut)
        /\ Prefix(call.reference_signal, call.cut) = Prefix(call.reference_other, call.cut)
        /\ \A t \in 1 .. Len(call.primary_signal) :
              (t - 1 < filter_i /\ t - 1 <= call.cut) =>
                  call.run.cleaned_signal[t] = call.other.cleaned_signal[t]
        /\ filter_i - 1 <= call.cut => call.run.weights = call.other.weights
        /\ call.run.updates = IndicesBefore(call.filter_order, filter_i)
        /\ call.other.updates = call.run.updates

\* the two runs part after the cut, with weights that have moved off zero
C23_Witness ==
    /\ FilterReturned
    /\ call.filter_order = 1 /\ Len(call.primary_signal) = 3 /\ call.cut = 1
    /\ call.reference_signal # call.reference_other
    /\ call.run.cleaned_signal[2] = call.other.cleaned_signal[2]
    /\ call.run.cleaned_signal[2] # RZero
    /\ call.run.cleaned_signal[3] # call.other.cleaned_signal[3]
    /\ call.run.weights # call.other.weights
    /\ call.run.updates = <<1, 2>>

\* C24: with an all-zero reference signal no division by zero occurs (the
\* denominator of the step is energy + epsilon > 0), the weights are all zero
\* after every update, and output[i] = primary[i] for every i >= order.
C24_ZeroReference ==
    (FilterRunning /\ AllZero(call.reference_signal)) =>
        /\ ~call.run.zero_division
        /\ AllZero(call.run.weights)
        /\ \A t \in 1 .. Len(call.primary_signal) :
              (t > call.filter_order /\ t - 1 < filter_i) =>
                  call.run.cleaned_signal[t] = call.primary_signal[t]

C24_Witness ==
    /\ FilterReturned /\ AllZero(call.reference_signal)
    /\ call.filter_order = 2 /\ Len(call.primary_signal) = 4
    /\ call.run.updates = <<2, 3>>
    /\ call.result = <<RZero, RZero, <<2, 1>>, <<0 - 1, 1>>>>
    /\ AllZero(call.run.weights)

\* C25: no state is shared across the recordings of a batch.  The pass over a
\* recording starts from an empty series at position 0 whatever came before
\* it; has_imu is decided by the IMU file of this recording alone; an IMU
\* array that is read was loaded for this recording, and for a recording
\* without IMU file the array of an earlier recording is never read; every
\* entry of the series comes from a window of this pass.
C25_NoSharedState ==
    /\ [][(LoadStep /\ pc' \in {"windows", "nlms"}) =>
            /\ final_results' = <<>> /\ visited' = {} /\ i' = 0 /\ win' = NoWin
            /\ script # "nlms" => has_imu' = imu_file'
            /\ imu_file' => imu_owner' = r']_vars
    /\ []((pc = "windows" /\ has_imu) => (imu_file /\ imu_owner = r))
    /\ [][(BodyStep /\ ~imu_file) => (win'.motion_freq = None /\ ~win'.is_artifact)]_vars
    /\ [](pc = "windows" =>
            \A k \in 1 .. Len(final_results) :
                \E p \in visited : final_results[k].tempo_s = WindowStartS(p))

\* the second recording of a batch has no IMU file, the first one had: its
\* array is still bound, and a window of the second has been accepted
C25_Witness ==
    /\ pc = "windows" /\ r = 2 /\ imu_owner = 1
    /\ ~imu_file /\ ~has_imu
    /\ Len(final_results) >= 1 /\ win.motion_freq = None

\* the classifier of a script has been called on its own and has returned
Classified == Returned /\ call.fn = "classify"

\* C26: the classifier compares ppg_freq only with motion_freq and with
\* 2 * motion_freq: a candidate at least the threshold away from both is never
\* marked artifact, in either policy, even when the second harmonic of the PPG
\* collides with the motion fundamental (|2 * ppg_freq - motion_freq| < threshold).
C26_HarmonicAsymmetry ==
    (/\ Classified
     /\ Abs(call.ppg_freq - call.motion_freq) >= COLLISION_THRESHOLD_HZ(call.variant)
     /\ Abs(call.ppg_freq - 2 * call.motion_freq) >= COLLISION_THRESHOLD_HZ(call.variant))
        => ~call.result

\* a candidate at 0.98 Hz against a stronger motion peak at 1.95 Hz, twice
\* its frequency, passes the classifier of fft_imu_2
C26_Witness ==
    /\ Classified /\ call.variant = "fft2"
    /\ call.ppg_freq = Xf(8) /\ call.motion_freq = Xf(16)
    /\ Abs(2 * call.ppg_freq - call.motion_freq) < COLLISION_THRESHOLD_HZ(call.variant)
    /\ call.ppg_power = 1 /\ call.motion_power = 2
    /\ ~call.result

\* C28: on the same candidate, motion peak and collision threshold, whatever
\* the power-tie-break classifier rejects as artifact the naive classifier
\* rejects too; and on a window of the loop the extractors of fft_imu_1 and
\* fft_imu_2 find the same frequency.  So the series accepted under the naive
\* policy is a part of the series accepted under the power-tie-break policy,
\* with the same timestamps and values on the windows both accept.
C28_PowerRefinesNaive ==
    /\ (Classified /\ call.variant # "fft1" /\ call.result) =>
          IsArtifactNaive(call.ppg_freq, call.motion_freq,
                          COLLISION_THRESHOLD_HZ(call.variant))
    /\ (Returned /\ call.fn = "extract" /\ call.n = window_samples) =>
          Extract("fft1", call.n, call.sp, call.min_hz, call.max_hz)[1]
              = Extract("fft2", call.n, call.sp, call.min_hz, call.max_hz)[1]

\* a collision the power test lets through: the naive classifier rejects the
\* candidate, the power-tie-break classifier accepts it
C28_Witness ==
    /\ Classified /\ call.variant = "fft2"
    /\ call.ppg_freq = Xf(20) /\ call.motion_freq = Xf(10)
    /\ call.ppg_power = 4 /\ call.motion_power = 2
    /\ ~call.result
    /\ IsArtifactNaive(call.ppg_freq, call.motion_freq, COLLISION_THRESHOLD_HZ("fft1"))

CeilDiv(a, b) == (a + b - 1) \div b

\* C27: for a finite recording a full pass (the NLMS pre-pass of with_nlms,
\* then the sliding-window loop) ends: from the canceller or the window loop
\* the script gets to the end of the pass, and the run to its end; the loop
\* visits at most ceil(L / step_samples) positions; a recording shorter than one
\* window passes through the loop with no window visited, an empty series, the
\* "no window" message and no error.
C27_PassTerminates ==
    /\ (pc \in {"nlms", "windows"}) ~> (pc = "next_file" /\ r = 1)
    /\ <>(pc \in {"done", "crashed"})
    /\ [](Cardinality(visited) <= CeilDiv(ppg_len, step_samples))
    /\ []((pc = "windows" /\ ppg_len < window_samples) =>
             (visited = {} /\ final_results = <<>>))
    /\ [][(pc = "windows" /\ ppg_len < window_samples) =>
             /\ pc' = "next_file"
             /\ HasMsg(log', r, "nenhuma_janela")
             /\ csv' = csv]_vars

\* with_nlms has run the canceller over a recording of more than one window
\* and the loop over its windows, and has written the series
C27_Witness ==
    /\ script = "nlms" /\ pc = "done"
    /\ 1 \in DOMAIN csv /\ csv[1] >= 1
    /\ HasMsg(log, 1, "salvos")

\* the plausible range of the script, in BPM
BpmFloor(s) == IF s = "peaks" THEN BPM_MIN ELSE 60 * BPM_HZ_MIN(s)
BpmCeiling(s) == IF s = "peaks" THEN BPM_MAX ELSE 60 * BPM_HZ_MAX(s)

\* C29: every record of an output series has a BPM inside the plausible range
\* of its script, 60 * BPM_HZ_MIN <= bpm <= 60 * BPM_HZ_MAX for the spectral
\* and the NLMS scripts and BPM_MIN <= bpm <= BPM_MAX for peak counting, and
\* a timestamp that is a non-negative multiple of the step duration.
C29_EmittedRange ==
    \A k \in 1 .. Len(final_results) :
        /\ BpmFloor(script) <= final_results[k].bpm
        /\ final_results[k].bpm <= BpmCeiling(script)
        /\ final_results[k].tempo_s >= 0
        /\ final_results[k].tempo_s % (STEP_SECONDS * MsPerSecond) = 0

\* peak counting has put a median at the lower end of the range into the
\* second window's record
C29_Witness ==
    /\ script = "peaks" /\ pc = "windows"
    /\ Len(final_results) = 2
    /\ final_results[2] = [tempo_s |-> STEP_SECONDS * MsPerSecond, bpm |-> BPM_MIN]

\* the gap between two peaks above which 60 / (gap / FS) is below BPM_MIN
LongestGap == (60 * FS * HzScale) \div BPM_MIN

\* C30: with peaks at least MIN_DISTANCE_SAMPLES = int(60 / BPM_MAX * FS)
\* samples apart every instantaneous BPM is at most BPM_MAX, so the filter
\* BPM_MIN <= bpm <= BPM_MAX drops values on the low side only: those of
\* gaps longer than 60 * FS / BPM_MIN samples.
C30_OnlyLowSideDropped ==
    (Returned /\ call.fn = "candidates") =>
        /\ \A j \in 1 .. Len(call.instant_bpms) : call.instant_bpms[j] <= BPM_MAX
        /\ call.result =
              SelectSeq(call.instant_bpms, LAMBDA bpm : bpm >= BPM_MIN)
        /\ Len(call.instant_bpms) - Len(call.result) =
              Cardinality({j \in 1 .. Len(call.peaks) - 1 :
                              call.peaks[j + 1] - call.peaks[j] > LongestGap})

\* gaps of 125, 600 and 601 samples: 240 and 50 BPM are kept, 49.9 is dropped
C30_Witness ==
    /\ Returned /\ call.fn = "candidates"
    /\ call.peaks = <<1, 126, 726, 1327>>
    /\ call.result = <<BPM_MAX, BPM_MIN>>

====
